---- MODULE Spec2Model ----
(***************************************************************************)
(* Model of the redis-mysql-store keystore facade (src/src/index.ts).      *)
(*                                                                         *)
(* The facade talks to two servers over one connection each.  Both client  *)
(* libraries put a command on the connection when the call is made and the *)
(* server answers the commands of one connection in the order they were    *)
(* sent, so each connection is a FIFO queue of commands in flight.  One    *)
(* step of the model is either the synchronous part of a facade call (up   *)
(* to its first await) or a server answering the head of a queue together  *)
(* with the continuation that the answer resumes; the constructor, a timer *)
(* firing and the exit handler of the process are steps of their own.      *)
(*                                                                         *)
(* JavaScript strings are tuples of one-character strings, so that the     *)
(* "temp:*" pattern is a real prefix test; null, undefined, a pending and  *)
(* a rejected promise are tuples no string is equal to.                    *)
(***************************************************************************)
EXTENDS Integers, Sequences, FiniteSets, TLC

VARIABLES
    config,        \* the config argument of the constructor
    phase,         \* where the constructor, init() and the process stand
    client,        \* the redis client: "none", "connecting", "open", "closed"
    connection,    \* the MySQL connection: "undefined", "open", "closed"
    timers,        \* the setInterval timers that autoFlush/autoTempFlush started
    store,         \* the MySQL table: key -> value or Null
    cache,         \* the redis keyspace: key -> [val, ttl]
    sqlQ,          \* queries sent on the MySQL connection, not yet answered
    redisQ,        \* commands sent on the redis connection, not yet answered
    calls,         \* the facade calls get/set/delete, one record per slot
    callsLeft,     \* how many more facade calls the callers make
    failsLeft,     \* how many more adapter requests fail
    jobsLeft,      \* how many more times a timer fires
    unhandled,     \* a promise was rejected with nobody handling it
    delReply,      \* what DEL answered to the last flush("TEMP"): keys removed
    uris,          \* the redisURI and sqlURI arguments: given (truthy) or not
    handlers,      \* cleanup() has registered its handlers with the process
    table,         \* CREATE TABLE IF NOT EXISTS was answered with success
    ready          \* how many times "ready" was emitted

vars == <<config, phase, client, connection, timers, store, cache, sqlQ, redisQ,
          calls, callsLeft, failsLeft, jobsLeft, unhandled, delReply,
          uris, handlers, table, ready>>

-----------------------------------------------------------------------------
(* Bounds *)

MaxSlots == 2
MaxCalls == 2
MaxFails == 1
MaxJobs == 1

-----------------------------------------------------------------------------
(* Values *)

Null == <<"null">>
Undefined == <<"undefined">>
Pending == <<"pending">>
Rejected == <<"rejected">>

KeyTempA == <<"t", "e", "m", "p", ":", "a">>
KeyOtherC == <<"o", "t", "h", "e", "r", ":", "c">>
Keys == {KeyTempA, KeyOtherC}

Empty == <<>>
Values == {Empty, <<"1">>}

NoKey == <<>>
NoTTL == -1
HourSeconds == 3600
ReadmeExpire == 400
Disabled == -1

\* "temp:*" of the KEYS command
TempPrefix == <<"t", "e", "m", "p", ":">>

\* the truth value JavaScript gives a string or null
Truthy(v) == v # Null /\ v # Undefined /\ v # Empty

\* the truth value JavaScript gives a number or undefined (0 stands for both
\* an option left out and an option set to 0: the code tests them alike)
TruthyNum(n) == n # 0

HasPrefix(k, p) == Len(k) >= Len(p) /\ SubSeq(k, 1, Len(p)) = p

\* config?.defaultExpire || 60 * 60
DefaultExpire == IF TruthyNum(config.defaultExpire) THEN config.defaultExpire ELSE HourSeconds

Slots == 1..MaxSlots

Absent == [val |-> Null, ttl |-> NoTTL]
Present(c, k) == c[k].val # Null

\* the options the constructor is given.  An interval is left out (0), the
\* disabling sentinel, or a period; defaultExpire is left out (0) or given.
\* Each interval takes each of its three kinds once: one config starts the
\* temp-flush timer only, one the full-flush timer only, one neither.
Configs ==
    { [redisAutoFlushInterval |-> 0, redisAutoTempFlushInterval |-> HourSeconds,
       defaultExpire |-> 0],
      [redisAutoFlushInterval |-> HourSeconds, redisAutoTempFlushInterval |-> Disabled,
       defaultExpire |-> ReadmeExpire],
      [redisAutoFlushInterval |-> Disabled, redisAutoTempFlushInterval |-> 0,
       defaultExpire |-> 0] }

\* a command in flight on a connection; src is the slot of the facade call
\* it belongs to, 0 for init() and the timers
Cmd(cmd, key, keys, val, ttl, src) ==
    [cmd |-> cmd, key |-> key, keys |-> keys, val |-> val, ttl |-> ttl, src |-> src]

\* the events the two adapters can emit: the name and the "on" of the payload
EventKinds == {"get", "set", "delete"} \X {"SQL", "REDIS"}

\* ev counts, per kind, the events emitted on behalf of the call; the payload
\* of each carries the key (and the value) of the request that was answered
NoCall == [op |-> "none", key |-> NoKey, val |-> Null, ret |-> Undefined, got |-> Null,
           sql |-> "none", redis |-> "none", exp |-> "none", logged |-> FALSE,
           rows |-> 0, removed |-> 0, ev |-> [e \in EventKinds |-> 0]]

\* this.emit(name, {key, value, on})
Emit(call, name, on) == [call EXCEPT !.ev[<<name, on>>] = @ + 1]

NewCall(op, k, v) == [NoCall EXCEPT !.op = op, !.key = k, !.val = v, !.ret = Pending]

InQueue(q, c) == \E i \in 1..Len(q) : q[i].src = c

\* the call's promise is settled and nothing it started is still in flight
Done(c) == /\ calls[c].op # "none"
           /\ calls[c].ret # Pending
           /\ ~InQueue(sqlQ, c)
           /\ ~InQueue(redisQ, c)

FreeSlot(c) == calls[c].op = "none" \/ Done(c)

\* a call needs a facade, and a new call takes the lowest slot no call in
\* flight holds
CanStart(c) == /\ phase \notin {"new", "threw", "exited"}
               /\ callsLeft > 0
               /\ FreeSlot(c)
               /\ \A d \in Slots : d < c => ~FreeSlot(d)

\* the constructor has returned: the client is created and connecting, init()
\* is under way, cleanup() has registered the handlers
Init ==
    /\ config \in Configs
    /\ phase = "redis"
    /\ client = "connecting"
    /\ connection = "undefined"
    /\ timers = [all |-> FALSE, temp |-> FALSE]
    /\ store = [k \in Keys |-> Null]
    /\ cache = [k \in Keys |-> Absent]
    /\ sqlQ = <<>>
    /\ redisQ = <<>>
    /\ calls = [c \in Slots |-> NoCall]
    /\ callsLeft = MaxCalls
    /\ failsLeft = MaxFails
    /\ jobsLeft = MaxJobs
    /\ unhandled = FALSE
    /\ delReply = 0
    /\ uris = [redis |-> TRUE, sql |-> TRUE]
    /\ handlers = TRUE
    /\ table = FALSE
    /\ ready = 0

\* before new Keystore(redisURI, sqlURI, config): each URI is given or not
InitNew ==
    /\ config \in Configs
    /\ phase = "new"
    /\ client = "none"
    /\ connection = "undefined"
    /\ timers = [all |-> FALSE, temp |-> FALSE]
    /\ store = [k \in Keys |-> Null]
    /\ cache = [k \in Keys |-> Absent]
    /\ sqlQ = <<>>
    /\ redisQ = <<>>
    /\ calls = [c \in Slots |-> NoCall]
    /\ callsLeft = MaxCalls
    /\ failsLeft = MaxFails
    /\ jobsLeft = MaxJobs
    /\ unhandled = FALSE
    /\ delReply = 0
    /\ uris \in [redis : BOOLEAN, sql : BOOLEAN]
    /\ handlers = FALSE
    /\ table = FALSE
    /\ ready = 0

\* the constructor has returned, the table holds a record for every key from
\* an earlier run, and the two servers answer every request with success
InitStored ==
    /\ config \in Configs
    /\ phase = "redis"
    /\ client = "connecting"
    /\ connection = "undefined"
    /\ timers = [all |-> FALSE, temp |-> FALSE]
    /\ store = [k \in Keys |-> <<"1">>]
    /\ cache = [k \in Keys |-> Absent]
    /\ sqlQ = <<>>
    /\ redisQ = <<>>
    /\ calls = [c \in Slots |-> NoCall]
    /\ callsLeft = MaxCalls
    /\ failsLeft = 0
    /\ jobsLeft = MaxJobs
    /\ unhandled = FALSE
    /\ delReply = 0
    /\ uris = [redis |-> TRUE, sql |-> TRUE]
    /\ handlers = TRUE
    /\ table = FALSE
    /\ ready = 0

-----------------------------------------------------------------------------
(* The constructor *)

\* (mutant) the constructor checks the redis URI only
ConstructorThrowsRedisOnly == ~uris.redis

\* if (!redisURI) throw ... else if (!sqlURI) throw ...
ConstructorThrows == ~uris.redis \/ ~uris.sql

\* the constructor: the URIs are checked after doConfig and before the client
\* is created, init() is called and cleanup() registers the handlers
Construct ==
    /\ phase = "new"
    /\ phase' = IF ConstructorThrows THEN "threw" ELSE "redis"
    /\ client' = IF ConstructorThrows THEN client ELSE "connecting"
    /\ handlers' = ~ConstructorThrows
    /\ UNCHANGED <<config, connection, timers, store, cache, sqlQ, redisQ, calls,
                   callsLeft, failsLeft, jobsLeft, unhandled, delReply, uris,
                   table, ready>>

-----------------------------------------------------------------------------
(* init(): connect both adapters, create the table, start the timers *)

\* whether this adapter request fails is the environment's choice
Outcome(ok) == /\ ok \in BOOLEAN
               /\ ~ok => failsLeft > 0
               /\ failsLeft' = IF ok THEN failsLeft ELSE failsLeft - 1

\* await this.client.connect()
InitRedisConnect(ok) ==
    /\ phase = "redis"
    /\ Outcome(ok)
    /\ client' = IF ok THEN "open" ELSE client
    /\ phase' = IF ok THEN "sqlcreate" ELSE "failed"
    /\ UNCHANGED <<config, connection, timers, store, cache, sqlQ, redisQ, calls,
                   callsLeft, jobsLeft, unhandled, delReply,
                   uris, handlers, table, ready>>

\* this.connection = await createConnection(this.sqlURI)
InitSqlCreate(ok) ==
    /\ phase = "sqlcreate"
    /\ Outcome(ok)
    /\ connection' = IF ok THEN "open" ELSE connection
    /\ phase' = IF ok THEN "sqlconnect" ELSE "failed"
    /\ UNCHANGED <<config, client, timers, store, cache, sqlQ, redisQ, calls,
                   callsLeft, jobsLeft, unhandled, delReply,
                   uris, handlers, table, ready>>

\* await this.connection.connect(), then the CREATE TABLE is sent
InitSqlConnect(ok) ==
    /\ phase = "sqlconnect"
    /\ Outcome(ok)
    /\ sqlQ' = IF ok THEN Append(sqlQ, Cmd("CREATE", NoKey, {}, Null, NoTTL, 0)) ELSE sqlQ
    /\ phase' = IF ok THEN "table" ELSE "failed"
    /\ UNCHANGED <<config, client, connection, timers, store, cache, redisQ, calls,
                   callsLeft, jobsLeft, unhandled, delReply,
                   uris, handlers, table, ready>>

\* (mutant) the sentinel is not looked at
TimerStartedNoSentinel(interval) == TruthyNum(interval)

\* a timer is started when its interval is truthy and not the sentinel
TimerStarted(interval) == TruthyNum(interval) /\ interval # Disabled

\* (mutant) init() goes on to emit ready whatever the CREATE TABLE answered
AfterCreateTableAnyway(ok) == "ready"

\* where init() goes when the CREATE TABLE is answered: on to emit ready, or
\* into its catch
AfterCreateTable(ok) == IF ok THEN "ready" ELSE "failed"

\* CREATE TABLE IF NOT EXISTS answered: emit ready, autoTempFlush(), autoFlush()
SqlCreateTable(ok) ==
    /\ sqlQ # <<>> /\ Head(sqlQ).cmd = "CREATE"
    /\ connection = "open"
    /\ Outcome(ok)
    /\ sqlQ' = Tail(sqlQ)
    /\ table' = ok
    /\ phase' = AfterCreateTable(ok)
    /\ ready' = IF phase' = "ready" THEN ready + 1 ELSE ready
    /\ timers' = IF phase' = "ready"
                 THEN [all |-> TimerStarted(config.redisAutoFlushInterval),
                       temp |-> TimerStarted(config.redisAutoTempFlushInterval)]
                 ELSE timers
    /\ UNCHANGED <<config, client, connection, store, cache, redisQ, calls,
                   callsLeft, jobsLeft, unhandled, delReply, uris, handlers>>

-----------------------------------------------------------------------------
(* What the two servers do with a command *)

\* SET key value: the value is stored and any expiry the key had is dropped
SetApply(c, k, v) == [c EXCEPT ![k] = [val |-> v, ttl |-> NoTTL]]

\* EXPIRE key seconds: nothing when the key is missing; a timeout that is not
\* positive deletes the key
ExpireApply(c, k, t) ==
    IF ~Present(c, k) THEN c
    ELSE IF t > 0 THEN [c EXCEPT ![k].ttl = t]
    ELSE [c EXCEPT ![k] = Absent]

\* DEL key [key ...]
DelApply(c, ks) == [k \in Keys |-> IF k \in ks THEN Absent ELSE c[k]]

\* (mutant) the pattern matches every key
TempKeysAny(c) == {k \in Keys : Present(c, k)}

\* KEYS temp:*
TempKeys(c) == {k \in Keys : Present(c, k) /\ HasPrefix(k, TempPrefix)}

\* (mutant) the full flush clears the temporary namespace only
FlushAllTempOnly(c) == DelApply(c, {k \in Keys : HasPrefix(k, TempPrefix)})

\* FLUSHALL
FlushAllApply(c) == [k \in Keys |-> Absent]

\* INSERT ... ON DUPLICATE KEY UPDATE
UpsertApply(s, k, v) == [s EXCEPT ![k] = v]

\* DELETE FROM ... WHERE keyX = ?
DeleteApply(s, k) == [s EXCEPT ![k] = Null]

-----------------------------------------------------------------------------
(* The facade: the synchronous part of get, set and delete *)

\* (mutant) the facade calls redis.set without the expire option
CacheSetCmdNoExpire(k, v, c) == Cmd("SET", k, {}, v, 0, c)

\* the redis.set a facade call makes: SET now, EXPIRE once SET is answered
CacheSetCmd(k, v, c) == Cmd("SET", k, {}, v, DefaultExpire, c)

\* get: await this.redis.get(key)
StartGet(c, k) ==
    /\ CanStart(c)
    /\ calls' = [calls EXCEPT ![c] = NewCall("get", k, Null)]
    /\ redisQ' = Append(redisQ, Cmd("GET", k, {}, Null, NoTTL, c))
    /\ callsLeft' = callsLeft - 1
    /\ UNCHANGED <<config, phase, client, connection, timers, store, cache, sqlQ,
                   failsLeft, jobsLeft, unhandled, delReply,
                   uris, handlers, table, ready>>

\* set: this.sql.set(key, value); this.redis.set(key, value, {expire}); neither
\* is awaited, so both requests are sent and the call returns.  Without a
\* connection this.connection.query throws inside sql.set and the promise
\* sql.set returned is rejected with nobody holding it.
StartSet(c, k, v) ==
    /\ CanStart(c)
    /\ calls' = [calls EXCEPT ![c] =
                   [NewCall("set", k, v) EXCEPT
                      !.sql = IF connection = "open" THEN "sent" ELSE "threw",
                      !.redis = "sent",
                      !.ret = Undefined]]
    /\ sqlQ' = IF connection = "open"
               THEN Append(sqlQ, Cmd("INSERT", k, {}, v, NoTTL, c))
               ELSE sqlQ
    /\ unhandled' = (unhandled \/ connection # "open")
    /\ redisQ' = Append(redisQ, CacheSetCmd(k, v, c))
    /\ callsLeft' = callsLeft - 1
    /\ UNCHANGED <<config, phase, client, connection, timers, store, cache,
                   failsLeft, jobsLeft, delReply,
                   uris, handlers, table, ready>>

\* (mutant) delete removes the durable record only
StartDeleteSqlOnly(c, k) ==
    /\ CanStart(c)
    /\ calls' = [calls EXCEPT ![c] =
                   [NewCall("delete", k, Null) EXCEPT
                      !.sql = IF connection = "open" THEN "sent" ELSE "threw",
                      !.ret = Undefined]]
    /\ sqlQ' = IF connection = "open"
               THEN Append(sqlQ, Cmd("DELETE", k, {}, Null, NoTTL, c))
               ELSE sqlQ
    /\ unhandled' = (unhandled \/ connection # "open")
    /\ callsLeft' = callsLeft - 1
    /\ UNCHANGED <<config, phase, client, connection, timers, store, cache, redisQ,
                   failsLeft, jobsLeft, delReply,
                   uris, handlers, table, ready>>

\* delete: this.sql.delete(key); this.redis.delete(key); neither is awaited
StartDelete(c, k) ==
    /\ CanStart(c)
    /\ calls' = [calls EXCEPT ![c] =
                   [NewCall("delete", k, Null) EXCEPT
                      !.sql = IF connection = "open" THEN "sent" ELSE "threw",
                      !.redis = "sent",
                      !.ret = Undefined]]
    /\ sqlQ' = IF connection = "open"
               THEN Append(sqlQ, Cmd("DELETE", k, {}, Null, NoTTL, c))
               ELSE sqlQ
    /\ unhandled' = (unhandled \/ connection # "open")
    /\ redisQ' = Append(redisQ, Cmd("DEL", k, {k}, Null, NoTTL, c))
    /\ callsLeft' = callsLeft - 1
    /\ UNCHANGED <<config, phase, client, connection, timers, store, cache,
                   failsLeft, jobsLeft, delReply,
                   uris, handlers, table, ready>>

-----------------------------------------------------------------------------
(* The redis connection answers its oldest command *)

RedisHead(cmd) == /\ redisQ # <<>>
                  /\ Head(redisQ).cmd = cmd
                  /\ client = "open"

\* what get returns on a cache hit
GetHitResult(k, value) == k

\* redis.get answered; get goes on: a truthy answer is a hit, anything else
\* falls through to sql.get, which throws when there is no connection.
\* A failed GET is caught in redis.get, logged, and read as null.
RedisGet(ok) ==
    /\ RedisHead("GET")
    /\ Outcome(ok)
    /\ LET m == Head(redisQ)
           c == m.src
           value == IF ok THEN cache[m.key].val ELSE Null
           answered == [calls[c] EXCEPT !.got = value,
                                        !.logged = (calls[c].logged \/ ~ok)]
           me == IF ok THEN Emit(answered, "get", "REDIS") ELSE answered
       IN  /\ redisQ' = Tail(redisQ)
           /\ IF Truthy(value)
              THEN /\ calls' = [calls EXCEPT ![c] =
                                  [me EXCEPT !.ret = GetHitResult(m.key, value)]]
                   /\ sqlQ' = sqlQ
              ELSE IF connection = "open"
              THEN /\ calls' = [calls EXCEPT ![c] = [me EXCEPT !.sql = "sent"]]
                   /\ sqlQ' = Append(sqlQ, Cmd("SELECT", m.key, {}, Null, NoTTL, c))
              ELSE /\ calls' = [calls EXCEPT ![c] =
                                  [me EXCEPT !.sql = "threw", !.ret = Rejected]]
                   /\ sqlQ' = sqlQ
    /\ UNCHANGED <<config, phase, client, connection, timers, store, cache,
                   callsLeft, jobsLeft, unhandled, delReply,
                   uris, handlers, table, ready>>

\* (mutant) the catch of redis.set swallows the error
SetCatchSilent(call) == call

\* the catch of redis.set: logger.error(e); return false
SetCatch(call) == [call EXCEPT !.logged = TRUE]

\* client.set answered inside redis.set: emit, then EXPIRE when expire is
\* truthy; a failure is caught, logged, and redis.set returns false
RedisSet(ok) ==
    /\ RedisHead("SET")
    /\ Outcome(ok)
    /\ LET m == Head(redisQ)
           c == m.src
       IN  /\ cache' = IF ok THEN SetApply(cache, m.key, m.val) ELSE cache
           /\ redisQ' = IF ok /\ TruthyNum(m.ttl)
                        THEN Append(Tail(redisQ), Cmd("EXPIRE", m.key, {}, m.val, m.ttl, c))
                        ELSE Tail(redisQ)
           /\ calls' = [calls EXCEPT ![c] =
                          IF ok
                          THEN Emit([calls[c] EXCEPT
                                       !.redis = "ok",
                                       !.exp = IF TruthyNum(m.ttl) THEN "sent" ELSE @],
                                    "set", "REDIS")
                          ELSE SetCatch([calls[c] EXCEPT !.redis = "failed"])]
    /\ UNCHANGED <<config, phase, client, connection, timers, store, sqlQ,
                   callsLeft, jobsLeft, unhandled, delReply,
                   uris, handlers, table, ready>>

\* client.expire answered inside redis.set
RedisExpire(ok) ==
    /\ RedisHead("EXPIRE")
    /\ Outcome(ok)
    /\ LET m == Head(redisQ)
           c == m.src
       IN  /\ cache' = IF ok THEN ExpireApply(cache, m.key, m.ttl) ELSE cache
           /\ redisQ' = Tail(redisQ)
           /\ calls' = [calls EXCEPT ![c] =
                          IF ok
                          THEN [calls[c] EXCEPT !.exp = "ok"]
                          ELSE SetCatch([calls[c] EXCEPT !.exp = "failed"])]
    /\ UNCHANGED <<config, phase, client, connection, timers, store, sqlQ,
                   callsLeft, jobsLeft, unhandled, delReply,
                   uris, handlers, table, ready>>

\* client.del answered; redis.delete emits nothing, has no catch and nobody
\* awaits it
RedisDel(ok) ==
    /\ RedisHead("DEL")
    /\ Outcome(ok)
    /\ LET m == Head(redisQ)
           c == m.src
           n == Cardinality({k \in m.keys : Present(cache, k)})
       IN  /\ cache' = IF ok THEN DelApply(cache, m.keys) ELSE cache
           /\ redisQ' = Tail(redisQ)
           /\ calls' = IF c = 0 THEN calls
                       ELSE [calls EXCEPT ![c] =
                               [calls[c] EXCEPT
                                  !.redis = IF ok THEN "ok" ELSE "failed",
                                  !.removed = IF ok THEN n ELSE @]]
           /\ delReply' = IF c = 0 /\ ok THEN n ELSE delReply
           /\ unhandled' = (unhandled \/ ~ok)
    /\ UNCHANGED <<config, phase, client, connection, timers, store, sqlQ,
                   callsLeft, jobsLeft, uris, handlers, table, ready>>

\* client.flushAll answered; the timer callback drops the promise
RedisFlushAll(ok) ==
    /\ RedisHead("FLUSHALL")
    /\ Outcome(ok)
    /\ cache' = IF ok THEN FlushAllApply(cache) ELSE cache
    /\ redisQ' = Tail(redisQ)
    /\ unhandled' = (unhandled \/ ~ok)
    /\ UNCHANGED <<config, phase, client, connection, timers, store, sqlQ, calls,
                   callsLeft, jobsLeft, delReply,
                   uris, handlers, table, ready>>

\* client.keys("temp:*") answered: when there are keys, redis.delete(keys);
\* the promise chain has no catch
RedisKeys(ok) ==
    /\ RedisHead("KEYS")
    /\ Outcome(ok)
    /\ LET keys == TempKeys(cache)
       IN  redisQ' = IF ok /\ Cardinality(keys) > 0
                     THEN Append(Tail(redisQ), Cmd("DEL", NoKey, keys, Null, NoTTL, 0))
                     ELSE Tail(redisQ)
    /\ unhandled' = (unhandled \/ ~ok)
    /\ UNCHANGED <<config, phase, client, connection, timers, store, cache, sqlQ,
                   calls, callsLeft, jobsLeft, delReply,
                   uris, handlers, table, ready>>

\* the server drops an entry whose time to live has run out
CacheExpire(k) ==
    /\ Present(cache, k)
    /\ cache[k].ttl > 0
    /\ cache' = [cache EXCEPT ![k] = Absent]
    /\ UNCHANGED <<config, phase, client, connection, timers, store, sqlQ, redisQ,
                   calls, callsLeft, failsLeft, jobsLeft, unhandled, delReply,
                   uris, handlers, table, ready>>

-----------------------------------------------------------------------------
(* The MySQL connection answers its oldest query *)

SqlHead(cmd) == /\ sqlQ # <<>>
                /\ Head(sqlQ).cmd = cmd
                /\ connection = "open"

\* sql.get answered inside get: a truthy value is put in the cache by a
\* redis.set that is not awaited, and returned; anything else gives null.
\* sql.get has no catch, so a failed query rejects get.
SqlSelect(ok) ==
    /\ SqlHead("SELECT")
    /\ Outcome(ok)
    /\ LET m == Head(sqlQ)
           c == m.src
           value == store[m.key]
           me == Emit(calls[c], "get", "SQL")
       IN  /\ sqlQ' = Tail(sqlQ)
           /\ IF ~ok
              THEN /\ calls' = [calls EXCEPT ![c] =
                                  [calls[c] EXCEPT !.sql = "failed", !.ret = Rejected]]
                   /\ redisQ' = redisQ
              ELSE IF Truthy(value)
              THEN /\ calls' = [calls EXCEPT ![c] =
                                  [me EXCEPT !.sql = "ok", !.redis = "sent",
                                             !.ret = value]]
                   /\ redisQ' = Append(redisQ, CacheSetCmd(m.key, value, c))
              ELSE /\ calls' = [calls EXCEPT ![c] =
                                  [me EXCEPT !.sql = "ok", !.ret = Null]]
                   /\ redisQ' = redisQ
    /\ UNCHANGED <<config, phase, client, connection, timers, store, cache,
                   callsLeft, jobsLeft, unhandled, delReply,
                   uris, handlers, table, ready>>

\* the upsert of sql.set answered; nobody awaits sql.set
SqlInsert(ok) ==
    /\ SqlHead("INSERT")
    /\ Outcome(ok)
    /\ LET m == Head(sqlQ)
           c == m.src
       IN  /\ store' = IF ok THEN UpsertApply(store, m.key, m.val) ELSE store
           /\ sqlQ' = Tail(sqlQ)
           /\ calls' = [calls EXCEPT ![c] =
                          IF ok
                          THEN Emit([calls[c] EXCEPT !.sql = "ok"], "set", "SQL")
                          ELSE [calls[c] EXCEPT !.sql = "failed"]]
           /\ unhandled' = (unhandled \/ ~ok)
    /\ UNCHANGED <<config, phase, client, connection, timers, cache, redisQ,
                   callsLeft, jobsLeft, delReply,
                   uris, handlers, table, ready>>

\* the DELETE of sql.delete answered; nobody awaits sql.delete
SqlDelete(ok) ==
    /\ SqlHead("DELETE")
    /\ Outcome(ok)
    /\ LET m == Head(sqlQ)
           c == m.src
       IN  /\ store' = IF ok THEN DeleteApply(store, m.key) ELSE store
           /\ sqlQ' = Tail(sqlQ)
           /\ calls' = [calls EXCEPT ![c] =
                          IF ok
                          THEN Emit([calls[c] EXCEPT
                                       !.sql = "ok",
                                       !.rows = IF store[m.key] # Null THEN 1 ELSE 0],
                                    "delete", "SQL")
                          ELSE [calls[c] EXCEPT !.sql = "failed"]]
           /\ unhandled' = (unhandled \/ ~ok)
    /\ UNCHANGED <<config, phase, client, connection, timers, cache, redisQ,
                   callsLeft, jobsLeft, delReply,
                   uris, handlers, table, ready>>

-----------------------------------------------------------------------------
(* The timers *)

\* setInterval callback of autoFlush: this.redis.flush("ALL")
TimerFlushAll ==
    /\ timers.all
    /\ jobsLeft > 0
    /\ jobsLeft' = jobsLeft - 1
    /\ redisQ' = Append(redisQ, Cmd("FLUSHALL", NoKey, {}, Null, NoTTL, 0))
    /\ UNCHANGED <<config, phase, client, connection, timers, store, cache, sqlQ,
                   calls, callsLeft, failsLeft, unhandled, delReply,
                   uris, handlers, table, ready>>

\* setInterval callback of autoTempFlush: this.redis.flush("TEMP")
TimerFlushTemp ==
    /\ timers.temp
    /\ jobsLeft > 0
    /\ jobsLeft' = jobsLeft - 1
    /\ redisQ' = Append(redisQ, Cmd("KEYS", NoKey, {}, Null, NoTTL, 0))
    /\ UNCHANGED <<config, phase, client, connection, timers, store, cache, sqlQ,
                   calls, callsLeft, failsLeft, unhandled, delReply,
                   uris, handlers, table, ready>>

-----------------------------------------------------------------------------
(* The process ends *)

\* (mutant) closeDB without its try/catch: the TypeError of destroy() on an
\* undefined connection leaves closeDB and the handler
CloseDBThrowsUncaught == connection = "undefined"

\* closeDB: try { this.client.disconnect(); this.connection.destroy() }
\* catch (e) { logger.error(e) }: nothing is thrown out of closeDB
CloseDBThrows == FALSE

\* the process exits, receives SIGINT or SIGTERM, or has an uncaught
\* exception: the registered handler runs closeDB() and process.exit().
\* disconnect() closes the redis client in any state; destroy() closes the
\* connection this.connection holds; a connection that createConnection is
\* still opening is not in this.connection yet and goes with the process.
\* After process.exit() nothing of the process is left: no call, no timer, no
\* request waiting for its answer (what the servers do with requests already
\* sent is not followed).
Exit ==
    /\ handlers
    /\ phase # "exited"
    /\ client' = "closed"
    /\ IF CloseDBThrows
       THEN UNCHANGED <<phase, connection, timers, sqlQ, redisQ, calls, delReply>>
       ELSE /\ phase' = "exited"
            /\ connection' = IF connection = "open" \/ phase = "sqlcreate"
                             THEN "closed"
                             ELSE connection
            /\ timers' = [all |-> FALSE, temp |-> FALSE]
            /\ sqlQ' = <<>>
            /\ redisQ' = <<>>
            /\ calls' = [c \in Slots |-> NoCall]
            /\ delReply' = 0
    /\ UNCHANGED <<config, store, cache, callsLeft, failsLeft, jobsLeft, unhandled,
                   uris, handlers, table, ready>>

-----------------------------------------------------------------------------
(* Specifications *)

Call == \E c \in Slots, k \in Keys :
            \/ StartGet(c, k)
            \/ StartDelete(c, k)
            \/ \E v \in Values : StartSet(c, k, v)

Step == \/ \E ok \in BOOLEAN :
              \/ InitRedisConnect(ok)
              \/ InitSqlCreate(ok)
              \/ InitSqlConnect(ok)
              \/ SqlCreateTable(ok)
              \/ RedisGet(ok)
              \/ RedisSet(ok)
              \/ RedisExpire(ok)
              \/ RedisDel(ok)
              \/ RedisFlushAll(ok)
              \/ RedisKeys(ok)
              \/ SqlSelect(ok)
              \/ SqlInsert(ok)
              \/ SqlDelete(ok)
        \/ \E k \in Keys : CacheExpire(k)
        \/ TimerFlushAll
        \/ TimerFlushTemp
        \/ Exit

Next == Call \/ Step

\* callers that call whenever they like
Spec == Init /\ [][Next]_vars

\* nothing of an earlier call is still in flight
Quiet == \A c \in Slots : FreeSlot(c)

NextSeq == (Quiet /\ Call) \/ Step

\* a caller that lets the work of one call finish before it makes the next
SpecSeq == Init /\ [][NextSeq]_vars

\* at most one call is in flight
OneInFlight == Cardinality({c \in Slots : ~FreeSlot(c)}) <= 1

NextPair == (phase = "ready" /\ OneInFlight /\ Call) \/ Step

\* callers that wait for the ready event and of whom two at a time have a call
\* in flight, on a table that holds records and with servers that answer every
\* request with success
SpecPair == InitStored /\ [][NextPair]_vars

\* callers that call whenever they like, on a table that holds records and
\* with servers that answer every request with success
SpecHealthy == InitStored /\ [][Next]_vars

NextNew == Construct \/ NextSeq

\* the same caller, from before the facade is constructed
SpecNew == InitNew /\ [][NextNew]_vars

-----------------------------------------------------------------------------
(* Claims *)

Settled(c) == calls[c].op # "none" /\ calls[c].ret # Pending

\* no request of the call failed and sql.* did not throw
Clean(c) == /\ calls[c].sql \notin {"failed", "threw"}
            /\ calls[c].redis # "failed"
            /\ calls[c].exp # "failed"
            /\ ~calls[c].logged

\* C1: a get that read an entry k=v from the cache returns v.
CacheHitReturnsValue ==
    \A c \in Slots :
        (calls[c].op = "get" /\ Settled(c) /\ calls[c].got # Null /\ Clean(c))
            => calls[c].ret = calls[c].got

\* C2: with one call at a time, a get of a key whose durable record is v (the
\* last set of the key wrote v and nothing wrote the key since) returns v,
\* whether or not the cache still holds the entry.
GetAfterSetReturnsValue ==
    \A c \in Slots :
        (calls[c].op = "get" /\ Settled(c) /\ Clean(c) /\ store[calls[c].key] # Null)
            => calls[c].ret = store[calls[c].key]

\* C3: in a set or delete call the cache step has not begun while the durable
\* step of the call is still in flight, so the cache never holds what a set
\* wrote whose durable write has not completed.
StoreStepBeforeCacheStep ==
    \A c \in Slots :
        (calls[c].op \in {"set", "delete"} /\ calls[c].sql = "sent")
            => calls[c].redis = "none"

\* C4: when the durable write of a set fails, the cache write of the call is
\* never made and the set reports the failure.
FailedStoreWriteSkipsCache ==
    \A c \in Slots :
        (calls[c].op = "set" /\ calls[c].sql = "failed")
            => (calls[c].redis = "none" /\ calls[c].ret = Rejected)

\* C5: with one call at a time, a get that misses the cache and finds the
\* durable record k=v returns v and starts the repopulation; once the expiry
\* is written the entry, while it lasts, is k=v with the default time to live.
ReadThroughRepopulates ==
    \A c \in Slots :
        (calls[c].op = "get" /\ calls[c].got = Null /\ calls[c].sql = "ok" /\ Clean(c)
           /\ store[calls[c].key] # Null)
            => /\ calls[c].ret = store[calls[c].key]
               /\ calls[c].redis # "none"
               /\ (calls[c].exp = "ok" /\ Present(cache, calls[c].key))
                    => cache[calls[c].key] =
                         [val |-> store[calls[c].key], ttl |-> DefaultExpire]

AdapterFailureNeverRaises ==
    \A c \in Slots :
        /\ (calls[c].sql = "failed" \/ calls[c].redis = "failed") => calls[c].ret # Rejected
        /\ (calls[c].op = "get" /\ calls[c].sql = "failed") => calls[c].ret = Null

FlushAllAnswered ==
    /\ redisQ # <<>> /\ Head(redisQ).cmd = "FLUSHALL"
    /\ redisQ' = Tail(redisQ)
    /\ failsLeft' = failsLeft
    /\ client' = "open"

\* C9: when the FLUSHALL of the full-flush job is answered, no key is left in
\* the cache and no durable record has changed.
FullFlushClearsCacheOnly ==
    [][FlushAllAnswered => ((\A k \in Keys : ~Present(cache', k)) /\ store' = store)]_vars

\* a set has written its value and not yet its expiry, the entry is gone
\* from the cache, the full flush has run and the durable record is there
FullFlushClearsCacheOnlyWitness ==
    \E c \in Slots :
        /\ calls[c].op = "set" /\ calls[c].redis = "ok" /\ calls[c].exp = "sent"
        /\ calls[c].sql = "ok"
        /\ ~Present(cache, calls[c].key)
        /\ store[calls[c].key] = calls[c].val
        /\ timers.all /\ jobsLeft < MaxJobs
        /\ \A i \in 1..Len(redisQ) : redisQ[i].cmd # "FLUSHALL"

\* the keys of the model whose name starts with temp:
TempNamed == {KeyTempA}

\* the redis connection answers the KEYS of flush("TEMP") with success
TempKeysAnswered ==
    /\ redisQ # <<>> /\ Head(redisQ).cmd = "KEYS"
    /\ redisQ' # redisQ /\ Len(redisQ') <= Len(redisQ)
    /\ failsLeft' = failsLeft
    /\ client' = "open"

\* the redis connection answers the DEL of flush("TEMP") with success
TempDelAnswered ==
    /\ redisQ # <<>> /\ Head(redisQ).cmd = "DEL" /\ Head(redisQ).src = 0
    /\ redisQ' = Tail(redisQ)
    /\ failsLeft' = failsLeft
    /\ client' = "open"

\* C10: the temp flush enumerates exactly the cached keys named temp:..., and
\* when its DEL is answered each of them is gone from the cache and every
\* other key is in the cache as it was.
TempFlushRemovesTempKeysOnly ==
    [][/\ TempKeysAnswered =>
            LET had == {k \in TempNamed : Present(cache, k)}
            IN  redisQ' = IF had = {}
                          THEN Tail(redisQ)
                          ELSE Append(Tail(redisQ), Cmd("DEL", NoKey, had, Null, NoTTL, 0))
       /\ TempDelAnswered =>
            /\ \A k \in Head(redisQ).keys : ~Present(cache', k)
            /\ \A k \in Keys \ TempNamed : cache'[k] = cache[k]]_vars

\* the temp flush has removed a key and a key of another name is still cached
TempFlushRemovesTempKeysOnlyWitness ==
    /\ delReply >= 1
    /\ Present(cache, KeyOtherC)
    /\ \A k \in TempNamed : ~Present(cache, k)
    /\ \A i \in 1..Len(redisQ) : redisQ[i].src # 0

\* the EXPIRE that gives the entry of key k the default TTL is in flight
ExpireInFlight(k) ==
    \E i \in 1..Len(redisQ) :
        /\ redisQ[i].cmd = "EXPIRE"
        /\ redisQ[i].key = k
        /\ redisQ[i].ttl = DefaultExpire

JobHasRun ==
    \/ jobsLeft < MaxJobs
    \/ \E i \in 1..Len(redisQ) : redisQ[i].src = 0

ReadyOnceAfterSetup ==
    /\ ready <= 1
    /\ ready = 1 => /\ client \in {"open", "closed"}
                    /\ connection \in {"open", "closed"}
                    /\ table
    /\ phase = "ready" => ready = 1
    /\ phase = "failed" => ready = 0

\* ready has been emitted, after all three steps
ReadyOnceAfterSetupWitness ==
    /\ ready = 1
    /\ phase = "ready"
    /\ client = "open" /\ connection = "open" /\ table

\* the exit handler runs: it is what closes the redis client
HandlerRuns == client # "closed" /\ client' = "closed"

\* C14: whenever the exit handler runs, in whatever phase of init(), it
\* reaches process.exit(), and then the redis client is closed and no MySQL
\* connection is open or being opened.
ExitClosesBothConnections ==
    [][HandlerRuns => /\ phase' = "exited"
                      /\ connection' \in {"undefined", "closed"}
                      /\ sqlQ' = <<>> /\ redisQ' = <<>>]_vars

\* the process has ended while init() was setting the connections up
ExitClosesBothConnectionsWitness ==
    /\ phase = "exited"
    /\ client = "closed"
    /\ connection = "closed"
    /\ ready = 0

\* how many events of the name on the tier the call in slot c has emitted
Emitted(c, name, on) == calls[c].ev[<<name, on>>]

\* C15: every adapter request of a call that was answered with success has
\* emitted exactly one event named after the operation for its tier: get, set
\* and delete on the durable store, get, set and delete on the cache.
EverySuccessEmitsOneEvent ==
    \A c \in Slots :
        /\ (calls[c].op = "get" /\ calls[c].sql = "ok") => Emitted(c, "get", "SQL") = 1
        /\ (calls[c].op = "set" /\ calls[c].sql = "ok") => Emitted(c, "set", "SQL") = 1
        /\ (calls[c].op = "delete" /\ calls[c].sql = "ok")
              => Emitted(c, "delete", "SQL") = 1
        /\ (calls[c].op = "get" /\ calls[c].ret # Pending /\ ~calls[c].logged)
              => Emitted(c, "get", "REDIS") = 1
        /\ (calls[c].op \in {"get", "set"} /\ calls[c].redis = "ok")
              => Emitted(c, "set", "REDIS") = 1
        /\ (calls[c].op = "delete" /\ calls[c].redis = "ok")
              => Emitted(c, "delete", "REDIS") = 1

\* C16: when the redis URI or the MySQL URI is not given, the constructor
\* throws (there is never a facade), and no client is created, no connection
\* is opened, no handler is registered with the process and no timer is
\* started.
MissingUriThrowsBeforeAnythingOpens ==
    (~uris.redis \/ ~uris.sql) =>
        /\ phase \in {"new", "threw"}
        /\ client = "none"
        /\ connection = "undefined"
        /\ ~handlers
        /\ ~timers.all /\ ~timers.temp
        /\ sqlQ = <<>> /\ redisQ = <<>>
        /\ ready = 0

\* the constructor was called without the MySQL URI and has thrown
MissingUriThrowsBeforeAnythingOpensWitness ==
    /\ phase = "threw"
    /\ uris.redis /\ ~uris.sql

\* a server answers a request of the call in slot c
AnswersCall(c) ==
    \/ /\ redisQ # <<>> /\ Head(redisQ).src = c
       /\ redisQ' # redisQ /\ Len(redisQ') <= Len(redisQ)
       /\ client' = "open"
    \/ /\ sqlQ # <<>> /\ Head(sqlQ).src = c
       /\ sqlQ' = Tail(sqlQ)
       /\ client' = "open"

\* the promise of the call in slot c is settled in this step
Settles(c) ==
    /\ calls[c].ret = Pending
    /\ calls'[c].op = calls[c].op
    /\ calls'[c].ret # Pending

\* C17: no step of a get(k) changes the table, and none changes a cache entry
\* other than that of k; a get(k) that finds k in neither tier returns null,
\* sends nothing to the cache and leaves both tiers as they are.
GetTouchesOnlyItsCacheEntry ==
    [][\A c \in Slots :
         calls[c].op = "get" =>
            /\ AnswersCall(c) =>
                  /\ store' = store
                  /\ \A k \in Keys \ {calls[c].key} : cache'[k] = cache[k]
            /\ (/\ Settles(c)
                /\ ~Present(cache, calls[c].key)
                /\ store[calls[c].key] = Null) =>
                  /\ calls'[c].ret = Null
                  /\ store' = store /\ cache' = cache
                  /\ Len(redisQ') <= Len(redisQ)]_vars

\* the callers have made two calls, which overlapped (each holds a slot), on
\* one key, and both are done
PairDone(c, d, opc, opd) ==
    /\ c # d
    /\ callsLeft = MaxCalls - 2
    /\ calls[c].op = opc /\ calls[d].op = opd
    /\ calls[c].key = calls[d].key
    /\ Done(c) /\ Done(d)

\* C18: when a get(k) and a delete(k) that overlapped on a key with a durable
\* record are both done, the cache has no entry for k.
DeleteWinsOverConcurrentGet ==
    \A c, d \in Slots :
        PairDone(c, d, "get", "delete") => ~Present(cache, calls[c].key)

\* C19: when two overlapping calls set(k, v1) and set(k, v2) are both done,
\* the record of k is one of v1, v2 and the cache entry of k, unless it has
\* gone from the cache since, holds the same value.
ConcurrentSetsSettleAlike ==
    \A c, d \in Slots :
        PairDone(c, d, "set", "set") =>
            /\ store[calls[c].key] \in {calls[c].val, calls[d].val}
            /\ Present(cache, calls[c].key) =>
                  cache[calls[c].key].val = store[calls[c].key]

\* C20: no call makes a request on a MySQL connection that does not exist
\* (this.connection undefined), and no call made before ready is rejected.
NoRequestWithoutConnection ==
    \A c \in Slots :
        /\ calls[c].sql # "threw"
        /\ ready = 0 => calls[c].ret # Rejected

====
